---------------------------- MODULE Spec2Model ----------------------------
(***************************************************************************)
(* Model of the Rust-Checklist core: the Tree arena of src/src/data.rs     *)
(* (nodes, locations, per-container order lists, entry states) and the     *)
(* view layer of src/src/tui.rs (collapsed set, build_visible_nodes).      *)
(*                                                                         *)
(* Identifiers (Uuid) are modelled as small integers.  Every call of the   *)
(* public API is one action; its return value is recorded in `last`.       *)
(* Results of the fallible helpers are records [ok, val] / [ok, err].      *)
(***************************************************************************)
EXTENDS Integers, Sequences, FiniteSets, TLC

\* ------------------------------------------------------------------ bounds

\* Largest identifier of the universe: identifiers are 0..MaxId.
MaxId == 3

\* Largest position argument handed to move_node.
MaxPos == 2

\* Longest sequence of API calls explored from Tree::new.
MaxCalls == 5

\* The identifier the root container received when it was constructed.
RootId == 0

Ids == 0..MaxId

Positions == 0..MaxPos

\* Placeholder for an argument slot an operation does not use.
NoArg == 0 - 1

\* ------------------------------------------------------------------ state

VARIABLES
  root,       \* Tree.root
  nodes,      \* Tree.nodes: identifier -> Node
  locations,  \* Tree.locations: child identifier -> parent identifier
  used,       \* identifiers Uuid::new_v4 has handed out so far
  collapsed,  \* TreeViewState.collapsed
  out,        \* the Vec build_visible_nodes filled on its last call
  last,       \* the last API call: operation, arguments, returned value
  calls       \* number of API calls made so far

vars == <<root, nodes, locations, used, collapsed, out, last, calls>>

tree == <<root, nodes, locations>>

\* ------------------------------------------------------------ result values

Ok(v) == [ok |-> TRUE, val |-> v]

Err(e) == [ok |-> FALSE, err |-> e]

\* The value an API call returned: "Ok", an error kind, or "Panic".
Outcome(r) == IF r.ok THEN "Ok" ELSE r.err

Call(op, a, b, st, res) == [op |-> op, a |-> a, b |-> b, st |-> st, res |-> res]

\* ------------------------------------------------------------- EntryState

EntryStates == {"Pending", "InProgress", "Completed", "Canceled"}

EntryState_next(s) ==
  CASE s = "Pending"    -> "InProgress"
    [] s = "InProgress" -> "Completed"
    [] s = "Completed"  -> "Canceled"
    [] s = "Canceled"   -> "Pending"

\* Faulty variant of EntryState::prev: Pending does not wrap to Canceled.
EntryState_prev_nowrap(s) ==
  CASE s = "Pending"    -> "Pending"
    [] s = "InProgress" -> "Pending"
    [] s = "Completed"  -> "InProgress"
    [] s = "Canceled"   -> "Completed"

EntryState_prev(s) ==
  CASE s = "Pending"    -> "Canceled"
    [] s = "InProgress" -> "Pending"
    [] s = "Completed"  -> "InProgress"
    [] s = "Canceled"   -> "Completed"

\* ------------------------------------------------------------------- nodes

Entry_new == [kind |-> "Entry", state |-> "Pending"]

Container_new == [kind |-> "Container", order |-> <<>>]

Node_new(kind) == IF kind = "Entry" THEN Entry_new ELSE Container_new

\* Faulty variant of is_entry: no node is ever reported as an Entry.
is_entry_never(node) == FALSE

is_entry(node) == node.kind = "Entry"

is_container(node) == node.kind = "Container"

\* ------------------------------------------------- Container order helpers

\* Faulty variant of add_order: the identifier is put in front.
add_order_front(order, id) == <<id>> \o order

add_order(order, id) == Append(order, id)

\* Faulty variant of remove_order: nothing is taken out.
remove_order_keep(order, id) == order

remove_order(order, id) == SelectSeq(order, LAMBDA x : x # id)

\* Faulty variant of move_order_panics: an index past the end is accepted.
move_order_panics_never(order, id, pos) == FALSE

\* Vec::insert panics when the index exceeds the length left after retain.
move_order_panics(order, id, pos) == pos > Len(remove_order(order, id))

\* Faulty variant of move_order: the identifier is put behind index pos.
move_order_behind(order, id, pos) ==
  LET kept == remove_order(order, id)
  IN  IF pos > Len(kept)
        THEN kept
        ELSE IF pos = Len(kept) THEN Append(kept, id)
        ELSE SubSeq(kept, 1, pos + 1) \o <<id>> \o SubSeq(kept, pos + 2, Len(kept))

move_order(order, id, pos) ==
  LET kept == remove_order(order, id)
  IN  IF pos > Len(kept)
        THEN kept
        ELSE SubSeq(kept, 1, pos) \o <<id>> \o SubSeq(kept, pos + 1, Len(kept))

\* 1-based index of the first occurrence of id, 0 when absent.
position(order, id) ==
  IF \E i \in 1..Len(order) : order[i] = id
    THEN CHOOSE i \in 1..Len(order) :
           order[i] = id /\ \A j \in 1..(i - 1) : order[j] # id
    ELSE 0

\* Faulty variant of swap_order: only the first of the two slots is written.
swap_order_oneway(order, id1, id2) ==
  LET i == position(order, id1)
      j == position(order, id2)
  IN  IF i # 0 /\ j # 0
        THEN [order EXCEPT ![i] = order[j]]
        ELSE order

swap_order(order, id1, id2) ==
  LET i == position(order, id1)
      j == position(order, id2)
  IN  IF i # 0 /\ j # 0
        THEN [order EXCEPT ![i] = order[j], ![j] = order[i]]
        ELSE order

\* --------------------------------------------------------- map primitives

MapInsert(m, k, v) == [x \in DOMAIN m \cup {k} |-> IF x = k THEN v ELSE m[x]]

MapRemove(m, k) == [x \in DOMAIN m \ {k} |-> m[x]]

SetOrder(ns, id, order) == [ns EXCEPT ![id].order = order]

\* ------------------------------------------------------- Tree: resolution

get_node(node_id) ==
  IF node_id \in DOMAIN nodes THEN Ok(node_id) ELSE Err("NodeNotFound")

\* Faulty variant of get_entry: a Container is reported as not found.
get_entry_unkind(node_id) ==
  IF ~get_node(node_id).ok THEN get_node(node_id)
  ELSE IF is_entry(nodes[node_id]) THEN Ok(node_id) ELSE Err("NodeNotFound")

get_entry(node_id) ==
  IF ~get_node(node_id).ok THEN get_node(node_id)
  ELSE IF is_entry(nodes[node_id]) THEN Ok(node_id) ELSE Err("WrongKind")

get_container(node_id) ==
  IF ~get_node(node_id).ok THEN get_node(node_id)
  ELSE IF is_container(nodes[node_id]) THEN Ok(node_id) ELSE Err("WrongKind")

\* Faulty variant of get_parent_id: the root is looked up like any node.
get_parent_id_rootless(node_id) ==
  IF node_id \in DOMAIN locations THEN Ok(locations[node_id])
  ELSE Err("ParentNotFound")

get_parent_id(node_id) ==
  IF node_id = root THEN Err("NoParent")
  ELSE IF node_id \in DOMAIN locations THEN Ok(locations[node_id])
  ELSE Err("ParentNotFound")

get_parent_container(node_id) ==
  IF ~get_parent_id(node_id).ok THEN get_parent_id(node_id)
  ELSE get_container(get_parent_id(node_id).val)

\* Faulty variant of compare_parents: the two parents are not compared.
compare_parents_lenient(node_id1, node_id2) ==
  IF ~get_parent_id(node_id1).ok THEN get_parent_id(node_id1)
  ELSE IF ~get_parent_id(node_id2).ok THEN get_parent_id(node_id2)
  ELSE Ok(TRUE)

compare_parents(node_id1, node_id2) ==
  IF ~get_parent_id(node_id1).ok THEN get_parent_id(node_id1)
  ELSE IF ~get_parent_id(node_id2).ok THEN get_parent_id(node_id2)
  ELSE Ok(get_parent_id(node_id1).val = get_parent_id(node_id2).val)

get_children_ids(parent_id) ==
  IF ~get_container(parent_id).ok THEN get_container(parent_id)
  ELSE Ok(nodes[parent_id].order)

\* ------------------------------------------------------------------- Init

Init ==
  /\ root = RootId
  /\ nodes = (RootId :> Container_new)
  /\ locations = <<>>
  /\ used = {RootId}
  /\ collapsed = {}
  /\ out = <<>>
  /\ last = Call("new", RootId, NoArg, "None", "Ok")
  /\ calls = 0

\* A panic or a stack overflow ends the process: nothing runs afterwards.
Running == last.res \notin {"Panic", "StackOverflow"}

\* Every API call is one step, counted up to MaxCalls.
Called == Running /\ calls < MaxCalls /\ calls' = calls + 1

\* Uuid::new_v4: identifiers are only ever compared for equality, so the
\* least identifier not yet stored in a tree stands for any fresh one.
FreshId(id) == id \in Ids \ used /\ \A j \in Ids \ used : id <= j

\* ------------------------------------------------ Tree: structural updates

\* Faulty variant of add_node_nodes: the node is listed but never stored.
add_node_nodes_unstored(parent_id, node_id, kind) ==
  SetOrder(nodes, parent_id, add_order(nodes[parent_id].order, node_id))

\* nodes after add_node succeeded: the parent's order grows, the node is stored.
add_node_nodes(parent_id, node_id, kind) ==
  MapInsert(SetOrder(nodes, parent_id, add_order(nodes[parent_id].order, node_id)),
            node_id, Node_new(kind))

\* Faulty variant of remove_node_nodes: the nodes located at node_id go too.
remove_node_nodes_cascade(p, node_id) ==
  LET gone == {node_id} \cup {c \in DOMAIN locations : locations[c] = node_id}
      unlisted == SetOrder(nodes, p, remove_order(nodes[p].order, node_id))
  IN  [x \in DOMAIN nodes \ gone |-> unlisted[x]]

\* Faulty variant of remove_node_nodes: the node stays listed by its parent.
remove_node_nodes_listed(p, node_id) == MapRemove(nodes, node_id)

\* nodes after remove_node succeeded below parent p: only node_id is erased.
remove_node_nodes(p, node_id) ==
  MapRemove(SetOrder(nodes, p, remove_order(nodes[p].order, node_id)), node_id)

\* Faulty variant of change_parent_detached: the old parent keeps the node.
change_parent_detached_kept(old_parent_id, node_id) == nodes

\* nodes after change_parent took node_id out of its old parent's order.
change_parent_detached(old_parent_id, node_id) ==
  SetOrder(nodes, old_parent_id, remove_order(nodes[old_parent_id].order, node_id))

\* Faulty variant of change_parent_attached: the old parent keeps the node.
change_parent_attached_kept(old_parent_id, new_parent_id, node_id) ==
  SetOrder(nodes, new_parent_id, add_order(nodes[new_parent_id].order, node_id))

\* nodes after change_parent appended node_id to the new parent's order.
change_parent_attached(old_parent_id, new_parent_id, node_id) ==
  LET detached == change_parent_detached(old_parent_id, node_id)
  IN  SetOrder(detached, new_parent_id,
               add_order(detached[new_parent_id].order, node_id))

\* ------------------------------------------------------- Tree: operations

add_node(parent_id, kind) ==
  /\ Called
  /\ \E node_id \in {id \in Ids : FreshId(id)} :
       LET c == get_container(parent_id) IN
       \* a rejected node is dropped, and its identifier with it
       /\ used' = IF c.ok THEN used \cup {node_id} ELSE used
       /\ last' = Call("add_node", parent_id, node_id, kind, Outcome(c))
       /\ IF c.ok
            THEN /\ nodes' = add_node_nodes(parent_id, node_id, kind)
                 /\ locations' = MapInsert(locations, node_id, parent_id)
            ELSE UNCHANGED <<nodes, locations>>
  /\ UNCHANGED <<root, collapsed, out>>

remove_node(node_id) ==
  LET c == get_parent_container(node_id) IN
  /\ Called
  /\ last' = Call("remove_node", node_id, NoArg, "None", Outcome(c))
  /\ IF c.ok
       THEN /\ nodes' = remove_node_nodes(c.val, node_id)
            /\ locations' = MapRemove(locations, node_id)
       ELSE UNCHANGED <<nodes, locations>>
  /\ UNCHANGED <<root, used, collapsed, out>>

move_node(node_id, new_pos) ==
  LET c == get_parent_container(node_id) IN
  /\ Called
  /\ IF c.ok
       THEN /\ nodes' = SetOrder(nodes, c.val,
                                 move_order(nodes[c.val].order, node_id, new_pos))
            /\ last' = Call("move_node", node_id, new_pos, "None",
                            IF move_order_panics(nodes[c.val].order, node_id, new_pos)
                              THEN "Panic" ELSE "Ok")
       ELSE /\ UNCHANGED nodes
            /\ last' = Call("move_node", node_id, new_pos, "None", c.err)
  /\ UNCHANGED <<root, locations, used, collapsed, out>>

swap_nodes(node_id1, node_id2) ==
  LET same == compare_parents(node_id1, node_id2)
      c    == get_parent_container(node_id1)
      res  == IF ~same.ok THEN same.err
              ELSE IF ~same.val THEN "DifferentParents"
              ELSE IF node_id1 = node_id2 THEN "SelfSwap"
              ELSE Outcome(c)
  IN
  /\ Called
  /\ last' = Call("swap_nodes", node_id1, node_id2, "None", res)
  /\ IF res = "Ok"
       THEN nodes' = SetOrder(nodes, c.val,
                              swap_order(nodes[c.val].order, node_id1, node_id2))
       ELSE UNCHANGED nodes
  /\ UNCHANGED <<root, locations, used, collapsed, out>>

change_parent(new_parent_id, node_id) ==
  LET p   == get_parent_id(node_id)
      c   == get_parent_container(node_id)
      nc  == get_container(new_parent_id)
      res == IF ~p.ok THEN p.err
             ELSE IF p.val = new_parent_id THEN "AlreadyInContainer"
             ELSE IF ~c.ok THEN c.err
             ELSE Outcome(nc)
  IN
  /\ Called
  /\ last' = Call("change_parent", new_parent_id, node_id, "None", res)
  /\ IF ~p.ok \/ p.val = new_parent_id \/ ~c.ok
       THEN UNCHANGED <<nodes, locations>>
       ELSE IF ~nc.ok
         THEN /\ nodes' = change_parent_detached(c.val, node_id)
              /\ UNCHANGED locations
         ELSE /\ nodes' = change_parent_attached(c.val, new_parent_id, node_id)
              /\ locations' = MapInsert(MapRemove(locations, node_id),
                                        node_id, new_parent_id)
  /\ UNCHANGED <<root, used, collapsed, out>>

\* ---------------------------------------------------- Tree: entry states

entry_state(node_id) ==
  LET e == get_entry(node_id) IN
  /\ Called
  /\ last' = Call("entry_state", node_id, NoArg,
                  IF e.ok THEN nodes[node_id].state ELSE "None", Outcome(e))
  /\ UNCHANGED <<root, nodes, locations, used, collapsed, out>>

set_entry_state(node_id, state) ==
  LET e == get_entry(node_id) IN
  /\ Called
  /\ last' = Call("set_entry_state", node_id, NoArg, state, Outcome(e))
  /\ IF e.ok
       THEN nodes' = [nodes EXCEPT ![node_id].state = state]
       ELSE UNCHANGED nodes
  /\ UNCHANGED <<root, locations, used, collapsed, out>>

\* `entry.state.next();` builds the successor and drops it: the field stays.
entry_state_next_stored(state) ==
  LET dropped == EntryState_next(state) IN state

entry_state_prev_stored(state) ==
  LET dropped == EntryState_prev(state) IN state

entry_state_next(node_id) ==
  LET e == get_entry(node_id) IN
  /\ Called
  /\ IF e.ok
       THEN /\ nodes' = [nodes EXCEPT ![node_id].state =
                           entry_state_next_stored(nodes[node_id].state)]
            /\ last' = Call("entry_state_next", node_id, NoArg,
                            nodes'[node_id].state, "Ok")
       ELSE /\ UNCHANGED nodes
            /\ last' = Call("entry_state_next", node_id, NoArg, "None", e.err)
  /\ UNCHANGED <<root, locations, used, collapsed, out>>

entry_state_prev(node_id) ==
  LET e == get_entry(node_id) IN
  /\ Called
  /\ IF e.ok
       THEN /\ nodes' = [nodes EXCEPT ![node_id].state =
                           entry_state_prev_stored(nodes[node_id].state)]
            /\ last' = Call("entry_state_prev", node_id, NoArg,
                            nodes'[node_id].state, "Ok")
       ELSE /\ UNCHANGED nodes
            /\ last' = Call("entry_state_prev", node_id, NoArg, "None", e.err)
  /\ UNCHANGED <<root, locations, used, collapsed, out>>

\* ------------------------------------------------------------ view state

is_collapsed(id) == id \in collapsed

add_collapsed(id) ==
  LET n   == get_node(id)
      res == IF ~n.ok THEN n.err
             ELSE IF is_entry(nodes[id]) THEN "WrongKind"
             ELSE "Ok"
  IN
  /\ Called
  /\ last' = Call("add_collapsed", id, NoArg, "None", res)
  /\ collapsed' = IF res = "Ok" THEN collapsed \cup {id} ELSE collapsed
  /\ UNCHANGED <<root, nodes, locations, used, out>>

remove_collapsed(id) ==
  /\ Called
  /\ last' = Call("remove_collapsed", id, NoArg, "None", "Ok")
  /\ collapsed' = collapsed \ {id}
  /\ UNCHANGED <<root, nodes, locations, used, out>>

\* --------------------------------------------------------- view flattening

\* A path of more than MaxId + 1 identifiers repeats one of them, and the
\* recursion then repeats for ever: the call overflows the stack.
RECURSIVE build_visible_nodes(_, _, _)
RECURSIVE build_visible_children(_, _, _, _)

\* The call on current_id at depth with the Vec holding acc: [out, res].
build_visible_nodes(current_id, depth, acc) ==
  LET pushed   == Append(acc, <<current_id, depth>>)
      children == get_children_ids(current_id)
  IN  IF depth > MaxId + 1 THEN [out |-> pushed, res |-> "StackOverflow"]
      ELSE IF is_collapsed(current_id) THEN [out |-> pushed, res |-> "Ok"]
      ELSE IF ~children.ok THEN [out |-> pushed, res |-> children.err]
      ELSE build_visible_children(children.val, 1, depth + 1, pushed)

\* The for loop over children from index i on; the first failure ends it.
build_visible_children(children, i, depth, acc) ==
  IF i > Len(children) THEN [out |-> acc, res |-> "Ok"]
  ELSE LET r == build_visible_nodes(children[i], depth, acc)
       IN  IF r.res # "Ok" THEN r
           ELSE build_visible_children(children, i + 1, depth, r.out)

visible_sequence(start_id) ==
  LET r == build_visible_nodes(start_id, 0, <<>>) IN
  /\ Called
  /\ out' = r.out
  /\ last' = Call("visible_sequence", start_id, NoArg, "None", r.res)
  /\ UNCHANGED <<root, nodes, locations, used, collapsed>>

\* ------------------------------------------------------------------- Next

Kinds == {"Entry", "Container"}

\* The structural operations of Tree.
Next ==
  \/ \E p \in Ids, k \in Kinds : add_node(p, k)
  \/ \E n \in Ids : remove_node(n)
  \/ \E n \in Ids, pos \in Positions : move_node(n, pos)
  \/ \E a \in Ids, b \in Ids : swap_nodes(a, b)
  \/ \E p \in Ids, n \in Ids : change_parent(p, n)

Spec == Init /\ [][Next]_vars

\* The four basic operations, without change_parent.
NextBasic ==
  \/ \E p \in Ids, k \in Kinds : add_node(p, k)
  \/ \E n \in Ids : remove_node(n)
  \/ \E n \in Ids, pos \in Positions : move_node(n, pos)
  \/ \E a \in Ids, b \in Ids : swap_nodes(a, b)

SpecBasic == Init /\ [][NextBasic]_vars

\* A tree being filled, and the entry-state operations on it.
NextEntry ==
  \/ \E p \in Ids, k \in Kinds : add_node(p, k)
  \/ \E n \in Ids : entry_state(n)
  \/ \E n \in Ids, s \in EntryStates : set_entry_state(n, s)
  \/ \E n \in Ids : entry_state_next(n)
  \/ \E n \in Ids : entry_state_prev(n)

SpecEntry == Init /\ [][NextEntry]_vars

\* A tree being filled and reparented, and the view layer on it.
NextView ==
  \/ \E p \in Ids, k \in Kinds : add_node(p, k)
  \/ \E p \in Ids, n \in Ids : change_parent(p, n)
  \/ \E n \in Ids : add_collapsed(n)
  \/ \E n \in Ids : remove_collapsed(n)
  \/ \E n \in Ids : visible_sequence(n)

SpecView == Init /\ [][NextView]_vars

\* Every operation of Tree that changes the structure, and the view layer.
NextViewTree ==
  \/ \E p \in Ids, k \in Kinds : add_node(p, k)
  \/ \E n \in Ids : remove_node(n)
  \/ \E n \in Ids, pos \in Positions : move_node(n, pos)
  \/ \E a \in Ids, b \in Ids : swap_nodes(a, b)
  \/ \E p \in Ids, n \in Ids : change_parent(p, n)
  \/ \E n \in Ids : add_collapsed(n)
  \/ \E n \in Ids : remove_collapsed(n)
  \/ \E n \in Ids : visible_sequence(n)

SpecViewTree == Init /\ [][NextViewTree]_vars

\* ------------------------------------------------------ data-model invariants

\* How often id occurs in order.
Occurrences(order, id) == Cardinality({i \in 1..Len(order) : order[i] = id})

\* Invariant 1: root is a Container in nodes.
Inv1 == root \in DOMAIN nodes /\ nodes[root].kind = "Container"

\* Invariant 2: every located identifier has a Container parent listing it once.
Inv2 ==
  \A k \in DOMAIN locations :
    /\ locations[k] \in DOMAIN nodes
    /\ nodes[locations[k]].kind = "Container"
    /\ Occurrences(nodes[locations[k]].order, k) = 1

\* Invariant 3: every listed identifier is a node located at the listing container.
Inv3 ==
  \A c \in DOMAIN nodes :
    nodes[c].kind = "Container" =>
      \A i \in 1..Len(nodes[c].order) :
        LET id == nodes[c].order[i] IN
        /\ id \in DOMAIN nodes
        /\ id \in DOMAIN locations
        /\ locations[id] = c

\* Invariant 4: {root} united with keys(locations) equals keys(nodes).
Inv4 == {root} \cup DOMAIN locations = DOMAIN nodes

\* The identifiers one step below the identifiers of S, through order lists.
ListedBelow(S) ==
  {id \in Ids : \E c \in S \cap DOMAIN nodes :
     /\ nodes[c].kind = "Container"
     /\ \E i \in 1..Len(nodes[c].order) : nodes[c].order[i] = id}

\* The identifiers one step above the identifiers of S, through locations.
LocatedAbove(S) == {locations[k] : k \in S \cap DOMAIN locations}

RECURSIVE Descendants(_, _)
\* The identifiers reachable from S in 1..k steps through order lists.
Descendants(S, k) ==
  IF k = 0 THEN {} ELSE ListedBelow(S) \cup Descendants(ListedBelow(S), k - 1)

RECURSIVE Ancestors(_, _)
\* The identifiers reachable from S in 1..k steps through locations.
Ancestors(S, k) ==
  IF k = 0 THEN {} ELSE LocatedAbove(S) \cup Ancestors(LocatedAbove(S), k - 1)

\* Invariant 5: no identifier is its own transitive ancestor, neither
\* through locations nor through order lists.
Acyclic ==
  \A id \in Ids :
    /\ id \notin Ancestors({id}, MaxId + 1)
    /\ id \notin Descendants({id}, MaxId + 1)

\* A call that returned: neither a panic nor a stack overflow.
Returned(c) == c.res \notin {"Panic", "StackOverflow"}

\* A call that returned a failure.
Failed(c) == Returned(c) /\ c.res # "Ok"

\* ------------------------------------------------------------------ claims

\* C1: after any sequence of successful add_node / remove_node / move_node /
\* swap_nodes calls (remove_node allowed on containers that still have
\* children), invariants 1-4 of the data model hold.  Checked under SpecBasic;
\* remove_node on a container with children breaks invariant 2.
C1_InvariantsPreserved ==
  last.res = "Ok" => Inv1 /\ Inv2 /\ Inv3 /\ Inv4

\* C2: whenever add_node, remove_node, move_node, swap_nodes or change_parent
\* returns a failure, nodes, locations and every order are what they were
\* before the call.  change_parent detaches the node before it resolves the
\* new parent.
C2_FailureLeavesTreeUnchanged ==
  [][Failed(last') => tree' = tree]_vars

\* C3: the structure is acyclic in every state reachable by Tree mutations,
\* change_parent included.  change_parent has no ancestor check.
C3_Acyclic == Acyclic

\* C4: entry_state_next on an Entry whose stored state is s changes the
\* stored state to next(s) and returns it, and entry_state_prev likewise to
\* prev(s).  The code computes the successor and drops it.
C4_EntryStateAdvances ==
  [][\A n \in Ids :
       /\ (last'.op = "entry_state_next" /\ last'.res = "Ok" /\ last'.a = n) =>
            /\ nodes'[n].state = EntryState_next(nodes[n].state)
            /\ last'.st = nodes'[n].state
       /\ (last'.op = "entry_state_prev" /\ last'.res = "Ok" /\ last'.a = n) =>
            /\ nodes'[n].state = EntryState_prev(nodes[n].state)
            /\ last'.st = nodes'[n].state
    ]_vars

\* The tree is one the data model allows: invariants 1-5 hold.
WellFormed == Inv1 /\ Inv2 /\ Inv3 /\ Inv4 /\ Acyclic

RECURSIVE PreOrder(_, _, _)
RECURSIVE PreOrderEach(_, _, _, _)
\* The pre-order list the flattening is meant to return: id at depth, then,
\* for a container that is not collapsed, its children's lists in stored
\* order at depth + 1; entries and collapsed containers are leaves.
PreOrder(id, depth, fuel) ==
  <<<<id, depth>>>> \o
    (IF \/ fuel = 0
        \/ id \in collapsed
        \/ id \notin DOMAIN nodes
        \/ nodes[id].kind # "Container"
       THEN <<>>
       ELSE PreOrderEach(nodes[id].order, 1, depth + 1, fuel - 1))

PreOrderEach(children, i, depth, fuel) ==
  IF i > Len(children) THEN <<>>
  ELSE PreOrder(children[i], depth, fuel) \o
       PreOrderEach(children, i + 1, depth, fuel)

\* C5: visible_sequence(tree, view, start_id) succeeds and returns the
\* pre-order depth-first list of (identifier, depth) pairs, entries emitted as
\* leaves.  The code asks every node that is not collapsed for its children,
\* and an Entry answers with a failure.
C5_VisibleSequenceSucceeds ==
  (last.op = "visible_sequence" /\ last.a \in DOMAIN nodes /\ WellFormed) =>
    /\ last.res = "Ok"
    /\ out = PreOrder(last.a, 0, MaxId + 1)

\* C6: after a successful add_node(parent_id, node) with a fresh identifier,
\* get_parent_id(node.id) returns parent_id and get_children_ids(parent_id)
\* holds node.id exactly once, as its last element, behind the children
\* listed before.
C6_AddNodeRoundTrip ==
  [][\A p \in Ids, n \in Ids :
       (last'.op = "add_node" /\ last'.res = "Ok" /\ last'.a = p /\ last'.b = n) =>
         /\ get_parent_id(n)' = Ok(p)
         /\ get_children_ids(p)'.ok
         /\ get_children_ids(p)'.val = Append(nodes[p].order, n)
         /\ Occurrences(get_children_ids(p)'.val, n) = 1
    ]_vars

\* C6 witness: add_node succeeded below a parent that already listed children.
C6_Witness ==
  /\ last.op = "add_node"
  /\ last.res = "Ok"
  /\ Len(nodes[last.a].order) >= 2

\* Both identifiers have a recorded parent, and the two parents differ.
DistinctParents(a, b) ==
  /\ get_parent_id(a).ok
  /\ get_parent_id(b).ok
  /\ get_parent_id(a).val # get_parent_id(b).val

\* C7 as stated: swap_nodes(a, b) fails with DifferentParents whenever a and b
\* have distinct parents and with SelfSwap whenever a = b, for every
\* identifier a, the root and identifiers without a locations entry included,
\* and leaves the tree unchanged.
C7_SwapPreconditionAnyId ==
  [][\A a \in Ids, b \in Ids :
       (last'.op = "swap_nodes" /\ last'.a = a /\ last'.b = b) =>
         /\ DistinctParents(a, b) =>
              last'.res = "DifferentParents" /\ tree' = tree
         /\ a = b => last'.res = "SelfSwap" /\ tree' = tree
    ]_vars

\* C7 as amended: swap_nodes(a, b) fails with DifferentParents whenever a and
\* b have distinct recorded parents, and with SelfSwap whenever a = b and a
\* has a recorded parent; swap_nodes(a, a) fails with NoParent when a is the
\* root and with the parent-lookup failure when a has no locations entry.  In
\* every one of these cases the tree is unchanged.
C7_SwapPrecondition ==
  [][\A a \in Ids, b \in Ids :
       (last'.op = "swap_nodes" /\ last'.a = a /\ last'.b = b) =>
         /\ DistinctParents(a, b) =>
              last'.res = "DifferentParents" /\ tree' = tree
         /\ (a = b /\ a # root /\ a \in DOMAIN locations) =>
              last'.res = "SelfSwap" /\ tree' = tree
         /\ (a = b /\ a = root) =>
              last'.res = "NoParent" /\ tree' = tree
         /\ (a = b /\ a # root /\ a \notin DOMAIN locations) =>
              last'.res = "ParentNotFound" /\ tree' = tree
    ]_vars

\* C7 witness: swap_nodes was refused for two located nodes under different
\* parents.
C7_Witness ==
  /\ last.op = "swap_nodes"
  /\ last.res = "DifferentParents"
  /\ DistinctParents(last.a, last.b)

\* Both identifiers are listed in the order of the container recorded as
\* the parent of both.
ListedSiblings(a, b) ==
  /\ a # b
  /\ get_parent_container(a).ok
  /\ get_parent_id(b) = get_parent_id(a)
  /\ Occurrences(nodes[locations[a]].order, a) = 1
  /\ Occurrences(nodes[locations[a]].order, b) = 1

\* C8: a successful swap_nodes(a, b) on two distinct children of the same
\* container exchanges the indices of a and b in that container's order and
\* changes nothing else; the same swap applied again restores the order.
C8_SwapExchanges ==
  [][\A a \in Ids, b \in Ids :
       (/\ last'.op = "swap_nodes" /\ last'.res = "Ok"
        /\ last'.a = a /\ last'.b = b
        /\ ListedSiblings(a, b)) =>
         LET p == locations[a]
             before == nodes[p].order
             after == nodes'[p].order
         IN  /\ Len(after) = Len(before)
             /\ \A i \in 1..Len(before) :
                  after[i] = IF before[i] = a THEN b
                             ELSE IF before[i] = b THEN a
                             ELSE before[i]
             /\ DOMAIN nodes' = DOMAIN nodes
             /\ \A x \in DOMAIN nodes \ {p} : nodes'[x] = nodes[x]
             /\ nodes'[p].kind = nodes[p].kind
             /\ locations' = locations
             /\ root' = root
             /\ swap_order(after, a, b) = before
    ]_vars

\* C8 witness: two of at least three listed siblings were swapped.
C8_Witness ==
  /\ last.op = "swap_nodes"
  /\ last.res = "Ok"
  /\ ListedSiblings(last.a, last.b)
  /\ Len(nodes[locations[last.a]].order) >= 3

\* C9: add_collapsed(tree, id) fails with NodeNotFound when id is absent and
\* with WrongKind when id names an Entry, leaving the collapsed set as it
\* was; it succeeds, inserting id, only when id names a Container.
C9_AddCollapsed ==
  [][\A id \in Ids :
       (last'.op = "add_collapsed" /\ last'.a = id) =>
         /\ id \notin DOMAIN nodes =>
              last'.res = "NodeNotFound" /\ collapsed' = collapsed
         /\ (id \in DOMAIN nodes /\ nodes[id].kind = "Entry") =>
              last'.res = "WrongKind" /\ collapsed' = collapsed
         /\ last'.res = "Ok" =>
              /\ id \in DOMAIN nodes
              /\ nodes[id].kind = "Container"
              /\ collapsed' = collapsed \cup {id}
         /\ \A x \in collapsed' \ collapsed :
              x = id /\ nodes[id].kind # "Entry"
    ]_vars

\* C9 witness: add_collapsed refused an Entry.
C9_Witness ==
  /\ last.op = "add_collapsed"
  /\ last.res = "WrongKind"
  /\ last.a \in DOMAIN nodes
  /\ nodes[last.a].kind = "Entry"

\* C10: add_node(parent_id, node) fails with NodeNotFound when parent_id is
\* absent and with WrongKind when it names an Entry, leaving the tree as it
\* was; on success keys(nodes) grows by exactly the new identifier and no
\* existing node, location or other container's order is altered.
C10_AddNode ==
  [][\A p \in Ids, n \in Ids :
       (last'.op = "add_node" /\ last'.a = p /\ last'.b = n) =>
         /\ p \notin DOMAIN nodes =>
              last'.res = "NodeNotFound" /\ tree' = tree
         /\ (p \in DOMAIN nodes /\ nodes[p].kind = "Entry") =>
              last'.res = "WrongKind" /\ tree' = tree
         /\ (p \in DOMAIN nodes /\ nodes[p].kind = "Container") =>
              last'.res = "Ok"
         /\ last'.res = "Ok" =>
              /\ n \notin DOMAIN nodes
              /\ DOMAIN nodes' = DOMAIN nodes \cup {n}
              /\ \A x \in DOMAIN nodes \ {p} : nodes'[x] = nodes[x]
              /\ nodes'[p].kind = nodes[p].kind
              /\ DOMAIN locations' = DOMAIN locations \cup {n}
              /\ \A k \in DOMAIN locations : locations'[k] = locations[k]
              /\ root' = root
    ]_vars

\* C10 witness: add_node was refused below an Entry while other nodes exist.
C10_Witness ==
  /\ last.op = "add_node"
  /\ last.res = "WrongKind"
  /\ Cardinality(DOMAIN nodes) >= 3

\* The containers whose order lists id.
Listers(id) ==
  {c \in DOMAIN nodes :
     nodes[c].kind = "Container" /\ Occurrences(nodes[c].order, id) >= 1}

\* C11: invariant 3 holds in every state reachable by any sequence of Tree
\* operations, whether each call succeeds or fails: every identifier a
\* container lists is in nodes and located at that container, hence no
\* identifier is listed by two different containers.
C11_ListedIsLocated ==
  /\ Inv3
  /\ \A id \in Ids : Cardinality(Listers(id)) <= 1

\* C11 witness: after a node has been removed, and with a call that failed
\* half-way or reparented a node behind it, a container still lists a child.
C11_Witness ==
  /\ DOMAIN nodes # used
  /\ last.op = "change_parent"
  /\ \E c \in DOMAIN nodes : nodes[c].kind = "Container" /\ Len(nodes[c].order) >= 1

\* The root is a Container in nodes and has no locations entry.
RootIsUnlocatedContainer ==
  /\ root \in DOMAIN nodes
  /\ nodes[root].kind = "Container"
  /\ root \notin DOMAIN locations

\* C12: in every state reachable by any sequence of Tree operations the root
\* is in nodes as a Container and has no entry in locations; remove_node(root),
\* move_node(root, _), change_parent(_, root) and get_parent_id(root) always
\* fail with NoParent and change nothing.
C12_RootIsFixed ==
  /\ RootIsUnlocatedContainer
  /\ get_parent_id(root) = Err("NoParent")
  /\ [][/\ RootIsUnlocatedContainer'
        /\ get_parent_id(root)' = Err("NoParent")
        /\ (\/ last'.op \in {"remove_node", "move_node"} /\ last'.a = root
            \/ last'.op = "change_parent" /\ last'.b = root) =>
             last'.res = "NoParent" /\ tree' = tree
       ]_vars

\* C12 witness: remove_node(root) was refused on a tree that holds more nodes.
C12_Witness ==
  /\ last.op = "remove_node"
  /\ last.a = root
  /\ last.res = "NoParent"
  /\ Cardinality(DOMAIN nodes) >= 3

\* C13: no container's order ever holds the same identifier twice, in any
\* state reachable by add_node (fresh identifiers), remove_node, move_node,
\* swap_nodes and change_parent.
C13_NoDuplicates ==
  \A c \in DOMAIN nodes :
    nodes[c].kind = "Container" =>
      \A id \in Ids : Occurrences(nodes[c].order, id) <= 1

\* C13 witness: change_parent appended a node to an order that already
\* listed another one.
C13_Witness ==
  /\ last.op = "change_parent"
  /\ last.res = "Ok"
  /\ Len(nodes[last.a].order) >= 2

\* The operations of Tree that resolve their argument to an Entry.
EntryOps == {"entry_state", "set_entry_state", "entry_state_next", "entry_state_prev"}

\* The order lists of the containers in ns, by identifier.
Orders(ns) ==
  [c \in {x \in DOMAIN ns : ns[x].kind = "Container"} |-> ns[c].order]

\* C14: entry_state, set_entry_state, entry_state_next and entry_state_prev
\* succeed exactly when node_id names an Entry in nodes, whatever its state;
\* for a Container they fail with WrongKind and for an absent identifier with
\* NodeNotFound; failing or not, they leave locations, every order and every
\* other node's state unchanged.
C14_EntryOpsResolveOnly ==
  [][\A n \in Ids :
       (last'.op \in EntryOps /\ last'.a = n) =>
         /\ (n \in DOMAIN nodes /\ nodes[n].kind = "Entry") <=> last'.res = "Ok"
         /\ (n \in DOMAIN nodes /\ nodes[n].kind = "Container") =>
              last'.res = "WrongKind"
         /\ n \notin DOMAIN nodes => last'.res = "NodeNotFound"
         /\ locations' = locations
         /\ root' = root
         /\ DOMAIN nodes' = DOMAIN nodes
         /\ Orders(nodes') = Orders(nodes)
         /\ \A x \in DOMAIN nodes \ {n} : nodes'[x] = nodes[x]
         /\ last'.res # "Ok" => nodes' = nodes
    ]_vars

\* C14 witness: entry_state_next was accepted on an Entry whose state is
\* Canceled, next to a Container and to other nodes.
C14_Witness ==
  /\ last.op = "entry_state_next"
  /\ last.res = "Ok"
  /\ nodes[last.a].state = "Canceled"
  /\ Cardinality(DOMAIN nodes) >= 3

\* The states the entries of the tree are in.
StoredStates == {nodes[n].state : n \in {x \in DOMAIN nodes : nodes[x].kind = "Entry"}}

\* C15: the EntryState ring is closed: for every state s an entry can be in,
\* prev(next(s)) = s and next(prev(s)) = s, four applications of next return
\* to s, and next maps Pending to InProgress, InProgress to Completed,
\* Completed to Canceled and Canceled to Pending.
C15_RingClosure ==
  \A s \in StoredStates :
    /\ s \in EntryStates
    /\ EntryState_prev(EntryState_next(s)) = s
    /\ EntryState_next(EntryState_prev(s)) = s
    /\ EntryState_next(EntryState_next(EntryState_next(EntryState_next(s)))) = s
    /\ s = "Pending" => EntryState_next(s) = "InProgress"
    /\ s = "InProgress" => EntryState_next(s) = "Completed"
    /\ s = "Completed" => EntryState_next(s) = "Canceled"
    /\ s = "Canceled" => EntryState_next(s) = "Pending"

\* C15 witness: entries in three different states, the wrap-around ones
\* among them, are stored at once.
C15_Witness ==
  /\ {"Pending", "Canceled"} \subseteq StoredStates
  /\ Cardinality(StoredStates) >= 3

\* order without the occurrences of id, the others in their relative order.
Without(order, id) == SelectSeq(order, LAMBDA x : x # id)

\* id is recorded below a parent that is not in nodes.
Orphaned(id) == id \in DOMAIN locations /\ locations[id] \notin DOMAIN nodes

\* A successful remove_node(n) erased n from nodes, from locations and from
\* its parent's order and changed nothing else; the nodes located at n stay.
RemovedOnly(n) ==
  LET p == locations[n] IN
  /\ n # root
  /\ DOMAIN nodes' = DOMAIN nodes \ {n}
  /\ DOMAIN locations' = DOMAIN locations \ {n}
  /\ \A k \in DOMAIN locations' : locations'[k] = locations[k]
  /\ \A x \in DOMAIN nodes' \ {p} : nodes'[x] = nodes[x]
  /\ p # n => /\ nodes'[p].kind = nodes[p].kind
              /\ nodes'[p].order = Without(nodes[p].order, n)
  /\ \A c \in DOMAIN nodes' :
       nodes'[c].kind = "Container" => Occurrences(nodes'[c].order, n) = 0
  /\ \A c \in DOMAIN locations \ {n} :
       locations[c] = n => c \in DOMAIN nodes' /\ locations'[c] = n
  /\ root' = root

\* C16 as stated: remove_node(node_id) on a non-root node removes exactly
\* that node; the children of a removed Container stay in nodes, located at
\* the removed identifier, and any later remove_node, move_node or
\* change_parent on such a child fails because its recorded parent cannot be
\* resolved (NodeNotFound).
C16_RemoveOneOrphansFailUnresolved ==
  [][\A n \in Ids :
       /\ (last'.op = "remove_node" /\ last'.res = "Ok" /\ last'.a = n) =>
            RemovedOnly(n)
       /\ (/\ Orphaned(n)
           /\ \/ last'.op \in {"remove_node", "move_node"} /\ last'.a = n
              \/ last'.op = "change_parent" /\ last'.b = n) =>
            last'.res = "NodeNotFound" /\ tree' = tree
    ]_vars

\* C16 as amended: as stated, except that change_parent(p, child) with p the
\* removed identifier itself fails with AlreadyInContainer, before the
\* recorded parent is resolved.
C16_RemoveOneOrphansFail ==
  [][\A n \in Ids :
       /\ (last'.op = "remove_node" /\ last'.res = "Ok" /\ last'.a = n) =>
            RemovedOnly(n)
       /\ (/\ Orphaned(n)
           /\ \/ last'.op \in {"remove_node", "move_node"} /\ last'.a = n
              \/ last'.op = "change_parent" /\ last'.b = n /\ last'.a # locations[n]) =>
            last'.res = "NodeNotFound" /\ tree' = tree
       /\ (/\ Orphaned(n)
           /\ last'.op = "change_parent" /\ last'.b = n /\ last'.a = locations[n]) =>
            last'.res = "AlreadyInContainer" /\ tree' = tree
    ]_vars

\* C16 witness: a Container was removed and a node located at it is still
\* in nodes.
C16_Witness ==
  /\ last.op = "remove_node"
  /\ last.res = "Ok"
  /\ \E c \in DOMAIN nodes : Orphaned(c) /\ locations[c] = last.a

\* C17: a successful change_parent(new_parent_id, node_id) takes node_id out
\* of its old parent's order, appends it as the last element of
\* new_parent_id's order and sets locations[node_id] = new_parent_id; keys of
\* nodes, every other locations entry, the relative order of the other
\* children of both containers and every other container are unchanged.  When
\* new_parent_id already is locations[node_id] the call fails with
\* AlreadyInContainer and changes nothing.
C17_ChangeParentMoves ==
  [][\A q \in Ids, n \in Ids :
       (last'.op = "change_parent" /\ last'.a = q /\ last'.b = n) =>
         /\ last'.res = "Ok" =>
              LET p == locations[n] IN
              /\ p # q
              /\ nodes'[p].order = Without(nodes[p].order, n)
              /\ nodes'[q].order = Append(nodes[q].order, n)
              /\ locations'[n] = q
              /\ DOMAIN locations' = DOMAIN locations
              /\ \A k \in DOMAIN locations \ {n} : locations'[k] = locations[k]
              /\ DOMAIN nodes' = DOMAIN nodes
              /\ \A x \in DOMAIN nodes \ {p, q} : nodes'[x] = nodes[x]
              /\ nodes'[p].kind = nodes[p].kind
              /\ nodes'[q].kind = nodes[q].kind
              /\ root' = root
         /\ (n # root /\ n \in DOMAIN locations /\ locations[n] = q) =>
              last'.res = "AlreadyInContainer" /\ tree' = tree
    ]_vars

\* C17 witness: a node moved from a parent that keeps another child to a
\* parent that already listed one.
C17_Witness ==
  /\ last.op = "change_parent"
  /\ last.res = "Ok"
  /\ Len(nodes[last.a].order) >= 2
  /\ \E c \in DOMAIN nodes \ {last.a} :
       nodes[c].kind = "Container" /\ Len(nodes[c].order) >= 1

\* id is listed, once, in the order of its recorded parent, a Container.
Listed(id) ==
  /\ get_parent_container(id).ok
  /\ Occurrences(nodes[locations[id]].order, id) = 1

\* C18: for a non-root node n listed in its parent's order of length L and
\* 0 <= new_pos <= L - 1, move_node(n, new_pos) succeeds and leaves the
\* parent's order a permutation of what it was, n at index new_pos, the other
\* children in their relative order; nodes, locations and all other
\* containers are unchanged.
C18_MoveInRange ==
  [][\A n \in Ids, pos \in Positions :
       (/\ last'.op = "move_node" /\ last'.a = n /\ last'.b = pos
        /\ Listed(n)
        /\ pos <= Len(nodes[locations[n]].order) - 1) =>
         LET p == locations[n]
             after == nodes'[p].order
         IN  /\ last'.res = "Ok"
             /\ Len(after) = Len(nodes[p].order)
             /\ after[pos + 1] = n
             /\ Without(after, n) = Without(nodes[p].order, n)
             /\ \A x \in Ids : Occurrences(after, x) = Occurrences(nodes[p].order, x)
             /\ DOMAIN nodes' = DOMAIN nodes
             /\ \A x \in DOMAIN nodes \ {p} : nodes'[x] = nodes[x]
             /\ nodes'[p].kind = nodes[p].kind
             /\ locations' = locations
             /\ root' = root
    ]_vars

\* C18 witness: a node was moved to the middle of three children.
C18_Witness ==
  /\ last.op = "move_node"
  /\ last.res = "Ok"
  /\ last.b = 1
  /\ Listed(last.a)
  /\ Len(nodes[locations[last.a]].order) >= 3
  /\ nodes[locations[last.a]].order[2] = last.a

\* C19: move_node(n, new_pos) does not clamp: for a listed n in an order of
\* length L and new_pos > L - 1 the call returns neither Ok nor an Err value;
\* it panics on the out-of-bounds insert, after n was taken out of the order.
C19_MoveOutOfRangePanics ==
  [][\A n \in Ids, pos \in Positions :
       (/\ last'.op = "move_node" /\ last'.a = n /\ last'.b = pos
        /\ Listed(n)
        /\ pos > Len(nodes[locations[n]].order) - 1) =>
         /\ last'.res = "Panic"
         /\ nodes'[locations[n]].order = Without(nodes[locations[n]].order, n)
         /\ ~Running'
    ]_vars

\* C19 witness: move_node panicked and the node is no longer listed by its
\* parent, which keeps its other child.
C19_Witness ==
  /\ last.op = "move_node"
  /\ last.res = "Panic"
  /\ Occurrences(nodes[locations[last.a]].order, last.a) = 0
  /\ Len(nodes[locations[last.a]].order) >= 1

\* The identifiers the flattening emitted.
Emitted == {out[i][1] : i \in 1..Len(out)}

\* The identifiers reachable from the root through order lists, the root
\* included.
BelowRoot == {root} \cup Descendants({root}, MaxId + 1)

\* C20: in every tree state reachable by any sequence of Tree operations,
\* change_parent under the node itself or under a descendant included, and
\* for every view state, visible_sequence started at the root terminates and
\* emits each identifier at most once; a cycle change_parent creates is
\* detached from the root, so only a traversal started inside the detached
\* part can diverge.
C20_RootTraversalTerminates ==
  last.op = "visible_sequence" =>
    /\ last.a = root =>
         /\ last.res # "StackOverflow"
         /\ Cardinality(Emitted) = Len(out)
    /\ last.res = "StackOverflow" => last.a \notin BelowRoot

\* C20 witness: the traversal from the root returned, emitting more than
\* the root, on a tree in which change_parent has closed a cycle.
C20_Witness ==
  /\ last.op = "visible_sequence"
  /\ last.a = root
  /\ Returned(last)
  /\ Len(out) >= 2
  /\ ~Acyclic

=============================================================================
